---- MODULE Spec2Model ----
(***************************************************************************)
(* A model of boost::math::quadrature::naive_monte_carlo                   *)
(* (include/boost/math/quadrature/naive_monte_carlo.hpp): the controller   *)
(* thread m_integrate, the worker threads m_thread_monte, and the callers  *)
(* of integrate(), cancel() and update_target_error().                     *)
(*                                                                         *)
(* Real numbers are exact rationals <<n, d>> with d >= 0; d = 0 encodes    *)
(* the IEEE special values: <<1,0>> = +inf, <<-1,0>> = -inf, <<0,0>> = NaN.*)
(* Rounding is not modelled; division by zero and NaN propagation are.     *)
(***************************************************************************)
EXTENDS Integers, Sequences, FiniteSets, TLC

(* ---------------------------- bounds ---------------------------------- *)

\* Largest thread count passed to the constructor.
MaxThreads == 2
\* Samples a worker draws between two publications; stands for
\* magic_calls_before_update, scaled down to keep the state space finite.
BatchLen == 2
\* Batches one worker may start over the life of the integrator.
MaxBatches == 1
\* Calls of integrate().
MaxRuns == 2
\* Calls of cancel().
MaxCancels == 1
\* Calls of update_target_error().
MaxUpdates == 1
\* Width of size_t in the model: seeds live in 0 .. 2^SeedBits - 1.
SeedBits == 2
\* Period of the model random-number engine.
RngMod == 4
\* Largest value std::random_device returns.
MaxEntropy == 1
\* Largest number of axes of the bounds passed to the constructor.
MaxAxes == 2

(* ------------------------- real arithmetic ---------------------------- *)

\* Op applied to arguments that are evaluated once, before Op is applied.
Strict1(Op(_), x) == CHOOSE r \in {Op(a) : a \in {x}} : TRUE
Strict(Op(_, _), x, y) == CHOOSE r \in {Op(a, b) : a \in {x}, b \in {y}} : TRUE
Strict3(Op(_, _, _), x, y, z) ==
    CHOOSE r \in {Op(a, b, c) : a \in {x}, b \in {y}, c \in {z}} : TRUE

RECURSIVE Gcd(_, _)
GcdStep(a, b) == IF b = 0 THEN a ELSE Gcd(b, a % b)
Gcd(a, b) == Strict(GcdStep, a, b)

Abs(x) == IF x < 0 THEN -x ELSE x

Sign(x) == IF x > 0 THEN 1 ELSE IF x < 0 THEN -1 ELSE 0

Reduce(n, d) ==
    IF d = 0 THEN <<Sign(n), 0>>
    ELSE LET g == Gcd(Abs(n), Abs(d))
             s == IF d < 0 THEN -1 ELSE 1
         IN  <<(s * n) \div g, (s * d) \div g>>

\* The canonical form of the quotient n/d.
Norm(n, d) == Strict(Reduce, n, d)

R(n) == <<n, 1>>
NaN == <<0, 0>>
PosInf == <<1, 0>>
NegInf == <<-1, 0>>

IsNaN(a) == a[2] = 0 /\ a[1] = 0
IsFinite(a) == a[2] # 0

Sum(a, b) ==
    IF a[2] = 0 /\ b[2] = 0
    THEN IF a[1] = b[1] THEN a ELSE NaN
    ELSE Norm(a[1] * b[2] + b[1] * a[2], a[2] * b[2])

Product(a, b) == Norm(a[1] * b[1], a[2] * b[2])

\* 1/a: 1/0 = +inf (the sign of a zero is not modelled), 1/inf = 0.
RInv(a) ==
    IF a[1] = 0 THEN (IF a[2] = 0 THEN NaN ELSE PosInf)
    ELSE Norm(a[2] * Sign(a[1]), Abs(a[1]))

Difference(a, b) == Sum(a, <<-b[1], b[2]>>)
Quotient(a, b) == Product(a, RInv(b))

RAdd(a, b) == Strict(Sum, a, b)
RSub(a, b) == Strict(Difference, a, b)
RMul(a, b) == Strict(Product, a, b)
RDiv(a, b) == Strict(Quotient, a, b)

\* a > b as an IEEE comparison: false when either side is NaN.
Greater(a, b) ==
    /\ ~IsNaN(a) /\ ~IsNaN(b)
    /\ IF a[2] = 0 /\ b[2] = 0 THEN a[1] > b[1]
       ELSE IF a[2] = 0 THEN a[1] > 0
       ELSE IF b[2] = 0 THEN b[1] < 0
       ELSE a[1] * b[2] > b[1] * a[2]

RGreater(a, b) == Strict(Greater, a, b)

LessEq(a, b) == ~IsNaN(a) /\ ~IsNaN(b) /\ ~Greater(a, b)
\* a <= b as an IEEE comparison.
RLeq(a, b) == Strict(LessEq, a, b)

(* ------------------ random-number engine and integrand ---------------- *)

\* RandomNumberGenerator gen(seed): the engine's state after seeding.
EngineSeed(seed) == seed % RngMod
\* gen(): the next state, which is also the number returned.
EngineNext(g) == (g + 1) % RngMod

RECURSIVE EngineNth(_, _)
\* The engine state after n calls of gen().
EngineNth(g, n) == IF n = 0 THEN g ELSE EngineNth(EngineNext(g), n - 1)

\* (gen() - gen.min()) * inv_denom: the draw scaled to [0, 1].
Uniform(g) == Norm(g, RngMod - 1)

\* The integrands the model is run with, over the unit interval (one Finite
\* axis, singular = false, so the remapping is the identity and m_volume = 1).
Integrands == {"step", "faulty"}

\* m_integrand(x): the outcome of one evaluation at the draw g.
\*   step:   0 on [0, 1/2), 2 on [1/2, 1]
\*   faulty: +inf at x = 0, throws at x = 1, and 1 in between
m_integrand(integrand, g) ==
    LET x == Uniform(g)
    IN  IF integrand = "step"
        THEN [throws |-> FALSE,
              val |-> IF RGreater(R(1), RMul(R(2), x)) THEN R(0) ELSE R(2)]
        ELSE [throws |-> x = R(1),
              val |-> IF x = R(0) THEN PosInf ELSE R(1)]

\* integrand(x): the user's function at the point whose first coordinate is
\* x, for any real x; m_integrand above is this function on the unit interval.
integrand_at(integrand, x) ==
    IF integrand = "step"
    THEN [throws |-> FALSE,
          val |-> IF RGreater(R(1), RMul(R(2), x)) THEN R(0) ELSE R(2)]
    ELSE [throws |-> x = R(1),
          val |-> IF x = R(0) THEN PosInf ELSE R(1)]

\* numeric_limits<Real>::max()
RealMax == 1000000

\* The error goals passed to update_target_error, and to the constructor.
Goals == {Norm(1, 4), Norm(1, 1)}
InitialGoals == {Norm(1, 4)}

(* ------------------------------ state --------------------------------- *)

VARIABLES
    F,                  \* the integrand captured by m_integrand
    m_num_threads,
    m_seed,
    m_error_goal,
    m_done,
    m_total_calls,
    m_variance,
    m_avg,
    m_exception,        \* "null", or the exception a worker stored
    m_thread_calls,
    m_thread_Ss,
    m_thread_averages,
    ctrl,               \* the m_integrate thread: position and locals
    wk,                 \* the m_thread_monte threads: position and locals
    future,             \* the std::future integrate() returned
    result,             \* the value the future resolved with
    failed,             \* history: a worker of the current run has failed
    nruns, ncancels, nupdates,  \* calls made so far (bounded)
    bounds, singular,   \* the constructor's arguments of these names
    m_lbs, m_dxs, m_limit_types, m_volume,
    ctor                \* the constructor: position and locals

vars == <<F, m_num_threads, m_seed, m_error_goal, m_done, m_total_calls,
          m_variance, m_avg, m_exception, m_thread_calls, m_thread_Ss,
          m_thread_averages, ctrl, wk, future, result, failed,
          nruns, ncancels, nupdates,
          bounds, singular, m_lbs, m_dxs, m_limit_types, m_volume, ctor>>

shared == <<m_total_calls, m_variance, m_avg>>
slots == <<m_thread_calls, m_thread_Ss, m_thread_averages>>
geometry == <<m_lbs, m_dxs, m_limit_types, m_volume>>
\* What no member function changes once the constructor has returned.
config == <<F, m_num_threads, bounds, singular, geometry, ctor>>
counters == <<nruns, ncancels, nupdates>>
history == <<failed, counters>>
runstate == <<ctrl, wk, future, result, history>>

SizeMod == 2 ^ SeedBits
Seeds == 0 .. SizeMod - 1
Threads == 0 .. m_num_threads - 1

Max(a, b) == IF a >= b THEN a ELSE b

RECURSIVE RSum(_, _)
RSumStep(f, n) == IF n = 0 THEN R(0) ELSE RAdd(RSum(f, n - 1), f[n - 1])
\* f[0] + ... + f[n-1], summed in index order.
RSum(f, n) == Strict(RSumStep, f, n)

RECURSIVE NSum(_, _)
NSumStep(f, n) == IF n = 0 THEN 0 ELSE NSum(f, n - 1) + f[n - 1]
NSum(f, n) == Strict(NSumStep, f, n)

\* A thread that is not running.
NoWorker == [pc |-> "none", gen |-> 0, M1 |-> R(0), S |-> R(0),
             compensator |-> R(0), k |-> 0, j |-> 0, exc |-> "null"]
\* The controller when no run is in flight.
\* .weights is history: the sum of the t_calls the weights were formed with.
NoCtrl == [pc |-> "idle", i |-> 0, total_calls |-> 0, t_calls |-> 0,
           variance |-> R(0), avg |-> R(0), weights |-> 0]

(* --------------------- the constructor's bounds loop ------------------ *)

\* numeric_limits<Real>::epsilon(). The model's finite reals near the bounds
\* it is run with are the multiples of Epsilon: neighbours are Epsilon apart.
Epsilon == Norm(1, 3)
\* sqrt(numeric_limits<Real>::min())
SqrtMin == Norm(1, 3)

\* std::nextafter(x, toward)
NextAfter(x, toward) ==
    IF IsNaN(x) \/ IsNaN(toward) THEN NaN
    ELSE IF x = PosInf THEN (IF toward = PosInf THEN x ELSE R(RealMax))
    ELSE IF x = NegInf THEN (IF toward = NegInf THEN x ELSE R(-RealMax))
    ELSE IF RGreater(toward, x) THEN RAdd(x, Epsilon)
    ELSE IF RGreater(x, toward) THEN RSub(x, Epsilon)
    ELSE x

\* Line 53: bounds[i].second <= bounds[i].first.
AxisFailsStrict(lower, upper) == RGreater(lower, upper)
AxisFails(lower, upper) == RLeq(upper, lower)

\* Lines 53-109 for one axis b = <<lower, upper>>: whether the domain error
\* is raised, and otherwise the limit type and what is stored in m_lbs and
\* m_dxs (for a doubly infinite axis both keep the zero resize() gave them).
ClassifyAxis(b, sing) ==
    LET lower == b[1]
        upper == b[2]
    IN  IF AxisFails(lower, upper)
        THEN [fails |-> TRUE, type |-> "FINITE", lb |-> R(0), dx |-> R(0)]
        ELSE IF lower = NegInf
        THEN IF upper = PosInf
             THEN [fails |-> FALSE, type |-> "DOUBLE_INFINITE",
                   lb |-> R(0), dx |-> R(0)]
             ELSE [fails |-> FALSE, type |-> "LOWER_BOUND_INFINITE",
                   lb |-> upper, dx |-> NaN]
        ELSE IF upper = PosInf
        THEN [fails |-> FALSE, type |-> "UPPER_BOUND_INFINITE",
              lb |-> IF sing THEN NextAfter(lower, R(RealMax)) ELSE lower,
              dx |-> NaN]
        ELSE IF sing
        THEN LET lb == IF lower = R(0) THEN Epsilon
                       ELSE NextAfter(lower, R(RealMax))
             IN  [fails |-> FALSE, type |-> "FINITE", lb |-> lb,
                  dx |-> RSub(NextAfter(upper, R(-RealMax)), lb)]
        ELSE [fails |-> FALSE, type |-> "FINITE", lb |-> lower,
              dx |-> RSub(upper, lower)]

\* The bounds of the runs of the integrator: the unit interval.
UnitBounds == [i \in {0} |-> <<R(0), R(1)>>]

\* The constructor's locals once it has returned after evals evaluations.
Constructed(evals) ==
    [pc |-> "done", i |-> 0, gen |-> 0, avg |-> R(0), evals |-> evals,
     error_goal |-> R(0)]

\* The constructor, lines 36-185, for valid bounds: threads, seed and
\* error_goal are its arguments, rd the value std::random_device returns.
Construct(integrand, threads, seed, error_goal, rd) ==
    LET n == Max(threads, 1)
        g0 == EngineSeed(IF seed = 0 THEN rd ELSE seed)
        y == [i \in 0 .. n - 1 |-> m_integrand(integrand, EngineNth(g0, i + 1))]
        ys == [i \in 0 .. n - 1 |-> y[i].val]
    IN  /\ \A i \in 0 .. n - 1 : ~y[i].throws
        /\ F = integrand
        /\ m_num_threads = n
        /\ m_seed = seed
        /\ m_thread_averages = ys
        /\ m_thread_calls = [i \in 0 .. n - 1 |-> 1]
        /\ m_thread_Ss = [i \in 0 .. n - 1 |-> R(0)]
        /\ m_avg = RDiv(RSum(ys, n), R(n))
        /\ m_error_goal = error_goal
        /\ m_done = FALSE
        /\ m_total_calls = n
        /\ m_variance = R(RealMax)
        /\ m_exception = "null"

Init ==
    /\ \E integrand \in Integrands, threads \in 0 .. MaxThreads, seed \in Seeds,
          error_goal \in InitialGoals, rd \in 0 .. MaxEntropy :
            Construct(integrand, threads, seed, error_goal, rd)
    /\ ctrl = NoCtrl
    /\ wk = [t \in Threads |-> NoWorker]
    /\ future = "none"
    /\ result = R(0)
    /\ failed = FALSE
    /\ nruns = 0 /\ ncancels = 0 /\ nupdates = 0
    /\ bounds = UnitBounds
    /\ singular = FALSE
    /\ m_limit_types = [i \in {0} |-> ClassifyAxis(bounds[i], singular).type]
    /\ m_lbs = [i \in {0} |-> ClassifyAxis(bounds[i], singular).lb]
    /\ m_dxs = [i \in {0} |-> ClassifyAxis(bounds[i], singular).dx]
    /\ m_volume = RMul(R(1), ClassifyAxis(bounds[0], singular).dx)
    /\ ctor = Constructed(m_num_threads)

(* ------------------- the constructor, step by step -------------------- *)

\* The values an end of an axis is drawn from.
BoundValues == {NegInf, R(0), Epsilon, R(1), PosInf, NaN}

\* The indices of the axes, and their number: bounds.size().
Axes == DOMAIN bounds
NumAxes == Cardinality(DOMAIN bounds)

\* Lines 120-144 for one axis: the point the draw t of [0, 1] is mapped to
\* and the factor the axis contributes to coeff.
Remap(type, lb, dx, t) ==
    IF type = "FINITE"
    THEN [x |-> RAdd(lb, RMul(t, dx)), factor |-> R(1)]
    ELSE IF type = "UPPER_BOUND_INFINITE"
    THEN LET z == RDiv(R(1), RSub(RAdd(R(1), Epsilon), t))
         IN  [x |-> RAdd(lb, RMul(t, z)),
              factor |-> RMul(RMul(z, z), RAdd(R(1), Epsilon))]
    ELSE IF type = "LOWER_BOUND_INFINITE"
    THEN LET z == RDiv(R(1), RAdd(t, SqrtMin))
         IN  [x |-> RAdd(lb, RMul(RSub(t, R(1)), z)), factor |-> RMul(z, z)]
    ELSE LET t1 == RDiv(R(1), RSub(RAdd(R(1), Epsilon), t))
             t2 == RDiv(R(1), RAdd(t, Epsilon))
         IN  [x |-> RDiv(RMul(RMul(RSub(RMul(R(2), t), R(1)), t1), t2), R(4)),
              factor |-> RDiv(RAdd(RMul(t1, t1), RMul(t2, t2)), R(4))]

RECURSIVE Coeff(_, _)
\* coeff after the first n axes of the remapped draws r.
Coeff(r, n) == IF n = 0 THEN m_volume ELSE RMul(Coeff(r, n - 1), r[n - 1].factor)

\* Lines 112-147: m_integrand at the draws ts, one per axis.
m_integrand_at(integrand, ts) ==
    LET r == [j \in Axes |-> Remap(m_limit_types[j], m_lbs[j], m_dxs[j], ts[j])]
        out == integrand_at(integrand, r[0].x)
    IN  [throws |-> out.throws, val |-> RMul(Coeff(r, NumAxes), out.val)]

\* The state when the constructor reaches line 51: the members named in the
\* initialiser list hold the arguments, the vectors have been resized, no
\* slot exists, and the members assigned at lines 178-184 are not yet
\* initialised (nothing reads them before they are assigned).
CtorInit ==
    /\ F \in Integrands
    /\ m_num_threads \in 0 .. MaxThreads
    /\ m_seed \in Seeds
    /\ \E n \in 1 .. MaxAxes :
         bounds \in [0 .. n - 1 -> BoundValues \X BoundValues]
    /\ singular \in BOOLEAN
    /\ m_lbs = [i \in Axes |-> R(0)]
    /\ m_dxs = [i \in Axes |-> R(0)]
    /\ m_limit_types = [i \in Axes |-> "FINITE"]
    /\ m_volume = R(1)
    /\ \E error_goal \in InitialGoals :
         ctor = [pc |-> "bounds", i |-> 0, gen |-> 0, avg |-> R(0),
                 evals |-> 0, error_goal |-> error_goal]
    /\ m_thread_calls = << >> /\ m_thread_Ss = << >> /\ m_thread_averages = << >>
    /\ m_error_goal = R(0) /\ m_done = FALSE /\ m_total_calls = 0
    /\ m_variance = R(0) /\ m_avg = R(0) /\ m_exception = "null"
    /\ ctrl = NoCtrl /\ wk = << >> /\ future = "none" /\ result = R(0)
    /\ failed = FALSE /\ nruns = 0 /\ ncancels = 0 /\ nupdates = 0

\* Lines 51-110, one iteration: classify axis i, or raise the domain error.
CtorAxis ==
    /\ ctor.pc = "bounds"
    /\ LET i == ctor.i
           c == ClassifyAxis(bounds[i], singular)
           more == i + 1 < NumAxes
       IN  IF c.fails
           THEN /\ ctor' = [ctor EXCEPT !.pc = "domain_error"]
                /\ UNCHANGED geometry
           ELSE /\ m_limit_types' = [m_limit_types EXCEPT ![i] = c.type]
                /\ m_lbs' = IF c.type = "DOUBLE_INFINITE" THEN m_lbs
                            ELSE [m_lbs EXCEPT ![i] = c.lb]
                /\ m_dxs' = IF c.type = "DOUBLE_INFINITE" THEN m_dxs
                            ELSE [m_dxs EXCEPT ![i] = c.dx]
                /\ m_volume' = IF c.type = "FINITE" THEN RMul(m_volume, c.dx)
                               ELSE m_volume
                /\ ctor' = [ctor EXCEPT !.i = IF more THEN i + 1 ELSE 0,
                                        !.pc = IF more THEN "bounds" ELSE "seed"]
    /\ UNCHANGED <<F, m_num_threads, bounds, singular, m_seed, m_error_goal,
                   m_done, shared, m_exception, slots, runstate>>

\* Lines 151-164: choose the seed, seed the engine, make m_num_threads >= 1.
CtorSeed ==
    /\ ctor.pc = "seed"
    /\ \E rd \in 0 .. MaxEntropy :
         ctor' = [ctor EXCEPT
                    !.gen = EngineSeed(IF m_seed = 0 THEN rd ELSE m_seed),
                    !.avg = R(0), !.i = 0, !.pc = "prime"]
    /\ m_num_threads' = Max(m_num_threads, 1)
    /\ UNCHANGED <<F, bounds, singular, geometry, m_seed, m_error_goal, m_done,
                   shared, m_exception, slots, runstate>>

\* Lines 165-176, one iteration: draw a point, evaluate the integrand there
\* and create slot i; an exception of the integrand leaves the constructor.
CtorPrime ==
    /\ ctor.pc = "prime"
    /\ LET i == ctor.i
           ts == [j \in Axes |-> Uniform(EngineNth(ctor.gen, j + 1))]
           out == m_integrand_at(F, ts)
           more == i + 1 < m_num_threads
       IN  IF out.throws
           THEN /\ ctor' = [ctor EXCEPT !.pc = "integrand_exception",
                                        !.evals = @ + 1]
                /\ UNCHANGED slots
           ELSE /\ m_thread_averages' = m_thread_averages @@ (i :> out.val)
                /\ m_thread_calls' = m_thread_calls @@ (i :> 1)
                /\ m_thread_Ss' = m_thread_Ss @@ (i :> R(0))
                /\ ctor' = [ctor EXCEPT
                              !.gen = EngineNth(ctor.gen, NumAxes),
                              !.avg = RAdd(ctor.avg, out.val),
                              !.evals = @ + 1,
                              !.i = IF more THEN i + 1 ELSE 0,
                              !.pc = IF more THEN "prime" ELSE "finish"]
    /\ UNCHANGED <<F, m_num_threads, bounds, singular, geometry, m_seed,
                   m_error_goal, m_done, shared, m_exception, runstate>>

\* Lines 177-184: the members that describe the progress.
CtorFinish ==
    /\ ctor.pc = "finish"
    /\ m_avg' = RDiv(ctor.avg, R(m_num_threads))
    /\ m_error_goal' = ctor.error_goal
    /\ m_done' = FALSE
    /\ m_total_calls' = m_num_threads
    /\ m_variance' = R(RealMax)
    /\ wk' = [t \in Threads |-> NoWorker]
    /\ ctor' = Constructed(ctor.evals)
    /\ UNCHANGED <<F, m_num_threads, bounds, singular, geometry, m_seed,
                   m_exception, slots, ctrl, future, result, history>>

CtorNext == CtorAxis \/ CtorSeed \/ CtorPrime \/ CtorFinish

CtorSpec == CtorInit /\ [][CtorNext]_vars

\* For the unit interval, non-singular, the constructor returns in a state
\* of Init.
ConstructorReachesInit ==
    (ctor.pc = "done" /\ bounds = UnitBounds /\ ~singular) => Init

(* ------------------------- derived observers -------------------------- *)

\* sqrt(v) > g for reals v, g: sqrt of a negative number or of NaN is NaN,
\* for which every comparison is false; otherwise the squares are compared.
SqrtGreaterOf(v, g) ==
    /\ ~IsNaN(v) /\ ~IsNaN(g) /\ ~RGreater(R(0), v)
    /\ (RGreater(R(0), g) \/ RGreater(v, RMul(g, g)))

SqrtGreater(v, g) == Strict(SqrtGreaterOf, v, g)

SqrtLeqOf(v, g) ==
    /\ ~IsNaN(v) /\ ~IsNaN(g) /\ ~RGreater(R(0), v)
    /\ ~RGreater(R(0), g) /\ ~RGreater(v, RMul(g, g))

\* sqrt(v) <= g, by the same rules.
SqrtLeq(v, g) == Strict(SqrtLeqOf, v, g)

\* The argument of the square root in current_error_estimate().
ErrorEstimateSq(variance, total_calls) == RDiv(variance, R(total_calls))

\* KeepPolling with the goal read once, at construction.
KeepPollingStaleGoal(variance, total_calls, goal) ==
    SqrtGreater(ErrorEstimateSq(variance, total_calls), Norm(1, 4))

\* The loop condition of line 296: current_error_estimate() > m_error_goal.
KeepPolling(variance, total_calls, goal) ==
    SqrtGreater(ErrorEstimateSq(variance, total_calls), goal)

\* Lines 289 and 321: variance/(total_calls - 1).
SampleVariance(sumS, total_calls) == RDiv(sumS, R(total_calls - 1))

\* Lines 285 and 317: one term of the weighted mean.
WeightedTermOf(average, t_calls, total_calls) ==
    RMul(average, RDiv(R(t_calls), R(total_calls)))
WeightedTerm(average, t_calls, total_calls) ==
    Strict3(WeightedTermOf, average, t_calls, total_calls)

(* ------------------------------ callers ------------------------------- *)

\* integrate() that also starts the count of calls afresh.
IntegrateResetsCalls ==
    /\ future # "pending"
    /\ nruns < MaxRuns
    /\ m_done' = FALSE
    /\ m_total_calls' = 0
    /\ future' = "pending"
    /\ result' = R(0)
    /\ failed' = FALSE
    /\ ctrl' = [NoCtrl EXCEPT !.pc = "start"]
    /\ nruns' = nruns + 1
    /\ UNCHANGED <<config, m_seed, m_error_goal, m_variance, m_avg, m_exception,
                   slots, wk, ncancels, nupdates>>

\* integrate(), called when no earlier run is still in flight.
Integrate ==
    /\ future # "pending"
    /\ nruns < MaxRuns
    /\ m_done' = FALSE
    /\ future' = "pending"
    /\ result' = R(0)
    /\ failed' = FALSE
    /\ ctrl' = [NoCtrl EXCEPT !.pc = "start"]
    /\ nruns' = nruns + 1
    /\ UNCHANGED <<config, m_seed, m_error_goal, shared, m_exception, slots,
                   wk, ncancels, nupdates>>

\* The seed cancel() stores.
CancelSeed(seed) == (seed * seed) % SizeMod

\* cancel()
Cancel ==
    /\ ncancels < MaxCancels
    /\ m_seed' = CancelSeed(m_seed)
    /\ m_done' = TRUE
    /\ ncancels' = ncancels + 1
    /\ UNCHANGED <<config, m_error_goal, shared, m_exception, slots, ctrl, wk,
                   future, result, failed, nruns, nupdates>>

\* update_target_error that also clears m_done to make the controller poll on.
UpdateTargetErrorClearsDone(new_target_error) ==
    /\ nupdates < MaxUpdates
    /\ new_target_error # m_error_goal
    /\ m_error_goal' = new_target_error
    /\ m_done' = FALSE
    /\ nupdates' = nupdates + 1
    /\ UNCHANGED <<config, m_seed, shared, m_exception, slots, ctrl, wk,
                   future, result, failed, nruns, ncancels>>

\* update_target_error(new_target_error)
UpdateTargetError(new_target_error) ==
    /\ nupdates < MaxUpdates
    /\ new_target_error # m_error_goal
    /\ m_error_goal' = new_target_error
    /\ nupdates' = nupdates + 1
    /\ UNCHANGED <<config, m_seed, m_done, shared, m_exception, slots, ctrl, wk,
                   future, result, failed, nruns, ncancels>>

(* ---------------------- the controller: m_integrate ------------------- *)

\* StartWorker with fresh accumulators instead of the slot's contents.
StartWorkerFresh(t, seed) ==
    [pc |-> "check", gen |-> EngineSeed(seed), M1 |-> R(0), S |-> R(0),
     compensator |-> R(0), k |-> 0, j |-> 0, exc |-> "null"]

\* Lines 332-342: a worker's locals when m_thread_monte starts with the
\* given seed: the engine is seeded and the accumulator loaded from slot t.
StartWorker(t, seed) ==
    [NoWorker EXCEPT !.pc = "check",
                     !.gen = EngineSeed(seed),
                     !.M1 = m_thread_averages[t],
                     !.S = m_thread_Ss[t],
                     !.compensator = R(0),
                     !.k = m_thread_calls[t]]

\* CtrlStart that asks std::random_device for a seed whatever m_seed is.
CtrlStartRandomSeed ==
    /\ ctrl.pc = "start"
    /\ \E rd \in 0 .. MaxEntropy :
         wk' = [t \in Threads |-> StartWorker(t, EngineNth(EngineSeed(rd), t + 1))]
    /\ ctrl' = [NoCtrl EXCEPT !.pc = "sum"]
    /\ UNCHANGED <<config, m_seed, m_error_goal, m_done, shared, m_exception,
                   slots, future, result, history>>

\* Lines 254-271: choose the master seed, seed the master engine and start
\* worker i with the i-th number the master engine returns.
CtrlStart ==
    /\ ctrl.pc = "start"
    /\ \E rd \in 0 .. MaxEntropy :
         LET seed == IF m_seed = 0 THEN rd ELSE m_seed
             gen == EngineSeed(seed)
         IN  wk' = [t \in Threads |-> StartWorker(t, EngineNth(gen, t + 1))]
    /\ ctrl' = [NoCtrl EXCEPT !.pc = "sum"]
    /\ UNCHANGED <<config, m_seed, m_error_goal, m_done, shared, m_exception,
                   slots, future, result, history>>

\* Lines 274-278, one iteration: total_calls += m_thread_calls[i].
CtrlSum ==
    /\ ctrl.pc = "sum"
    /\ LET total == ctrl.total_calls + m_thread_calls[ctrl.i]
       IN  ctrl' = IF ctrl.i + 1 < m_num_threads
                   THEN [ctrl EXCEPT !.total_calls = total, !.i = ctrl.i + 1]
                   ELSE [ctrl EXCEPT !.total_calls = total, !.i = 0,
                                     !.pc = "agg_calls"]
    /\ UNCHANGED <<config, m_seed, m_error_goal, m_done, shared, m_exception,
                   slots, wk, future, result, history>>

\* Line 283: t_calls = m_thread_calls[i].
CtrlAggCalls ==
    /\ ctrl.pc = "agg_calls"
    /\ ctrl' = [ctrl EXCEPT !.t_calls = m_thread_calls[ctrl.i],
                            !.weights = @ + m_thread_calls[ctrl.i],
                            !.pc = "agg_avg"]
    /\ UNCHANGED <<config, m_seed, m_error_goal, m_done, shared, m_exception,
                   slots, wk, future, result, history>>

\* Line 285: avg += m_thread_averages[i]*(t_calls/total_calls).
CtrlAggAvg ==
    /\ ctrl.pc = "agg_avg"
    /\ ctrl' = [ctrl EXCEPT
                  !.avg = RAdd(ctrl.avg,
                               WeightedTerm(m_thread_averages[ctrl.i],
                                            ctrl.t_calls, ctrl.total_calls)),
                  !.pc = "agg_S"]
    /\ UNCHANGED <<config, m_seed, m_error_goal, m_done, shared, m_exception,
                   slots, wk, future, result, history>>

\* Line 286: variance += m_thread_Ss[i], and the loop's increment.
CtrlAggS ==
    /\ ctrl.pc = "agg_S"
    /\ ctrl' = [ctrl EXCEPT
                  !.variance = RAdd(ctrl.variance, m_thread_Ss[ctrl.i]),
                  !.t_calls = 0,
                  !.i = IF ctrl.i + 1 < m_num_threads THEN ctrl.i + 1 ELSE 0,
                  !.pc = IF ctrl.i + 1 < m_num_threads THEN "agg_calls"
                         ELSE "publish"]
    /\ UNCHANGED <<config, m_seed, m_error_goal, m_done, shared, m_exception,
                   slots, wk, future, result, history>>

\* CtrlPublish without lines 292-295: the poll does not look at m_done.
CtrlPublishNoBreak ==
    /\ ctrl.pc = "publish"
    /\ m_avg' = ctrl.avg
    /\ m_variance' = RDiv(ctrl.variance, R(ctrl.total_calls - 1))
    /\ m_total_calls' = ctrl.total_calls
    /\ ctrl' = [NoCtrl EXCEPT !.pc = "while_cond"]
    /\ UNCHANGED <<config, m_seed, m_error_goal, m_done, m_exception, slots, wk,
                   future, result, history>>

\* Lines 288-295: publish the aggregate, then break if m_done is set.
CtrlPublish ==
    /\ ctrl.pc = "publish"
    /\ m_avg' = ctrl.avg
    /\ m_variance' = SampleVariance(ctrl.variance, ctrl.total_calls)
    /\ m_total_calls' = ctrl.total_calls
    /\ ctrl' = [NoCtrl EXCEPT !.pc = IF m_done THEN "set_done" ELSE "while_cond"]
    /\ UNCHANGED <<config, m_seed, m_error_goal, m_done, m_exception, slots, wk,
                   future, result, history>>

\* Line 296: while (current_error_estimate() > m_error_goal).
CtrlWhileCond ==
    /\ ctrl.pc = "while_cond"
    /\ ctrl' = [ctrl EXCEPT
                  !.pc = IF KeepPolling(m_variance, m_total_calls, m_error_goal)
                         THEN "sum" ELSE "set_done"]
    /\ UNCHANGED <<config, m_seed, m_error_goal, m_done, shared, m_exception,
                   slots, wk, future, result, history>>

\* Line 298: m_done = true.
CtrlSetDone ==
    /\ ctrl.pc = "set_done"
    /\ m_done' = TRUE
    /\ ctrl' = [ctrl EXCEPT !.pc = "join"]
    /\ UNCHANGED <<config, m_seed, m_error_goal, shared, m_exception, slots, wk,
                   future, result, history>>

\* CtrlJoin without lines 299-300: the controller does not wait.
CtrlJoinNoWait ==
    /\ ctrl.pc = "join"
    /\ ctrl' = [ctrl EXCEPT !.pc = "joined"]
    /\ UNCHANGED <<config, m_seed, m_error_goal, m_done, shared, m_exception,
                   slots, wk, future, result, history>>

\* Lines 299-300: join every worker thread.
CtrlJoin ==
    /\ ctrl.pc = "join"
    /\ \A t \in Threads : wk[t].pc = "exited"
    /\ wk' = [t \in Threads |-> NoWorker]
    /\ ctrl' = [ctrl EXCEPT !.pc = "joined"]
    /\ UNCHANGED <<config, m_seed, m_error_goal, m_done, shared, m_exception,
                   slots, future, result, history>>

\* Lines 301-304: rethrow the stored exception.
CtrlRethrow ==
    /\ ctrl.pc = "joined"
    /\ m_exception # "null"
    /\ future' = "exception"
    /\ ctrl' = NoCtrl
    /\ UNCHANGED <<config, m_seed, m_error_goal, m_done, shared, m_exception,
                   slots, wk, result, history>>

\* Lines 306-310: the sum of the per-thread calls.
FinalTotalCalls == NSum(m_thread_calls, m_num_threads)

\* Lines 313-319: the weighted mean of the per-thread averages.
FinalAvg ==
    RSum([t \in Threads |->
            WeightedTerm(m_thread_averages[t], m_thread_calls[t],
                         FinalTotalCalls)], m_num_threads)

\* Lines 305-324: the final aggregate, published and returned.
CtrlFinal ==
    /\ ctrl.pc = "joined"
    /\ m_exception = "null"
    /\ m_avg' = FinalAvg
    /\ m_variance' = SampleVariance(RSum(m_thread_Ss, m_num_threads),
                                    FinalTotalCalls)
    /\ m_total_calls' = FinalTotalCalls
    /\ future' = "value"
    /\ result' = FinalAvg
    /\ ctrl' = NoCtrl
    /\ UNCHANGED <<config, m_seed, m_error_goal, m_done, m_exception, slots, wk,
                   history>>

(* ----------------------- the workers: m_thread_monte ------------------ *)

\* The largest k a worker reaches within the model's bound.
MaxCalls == 1 + MaxBatches * BatchLen

\* Lines 372-378: the Kahan-compensated Welford update with the sample f.
WelfordStep(w, f) ==
    LET k == w.k + 1
        term == RDiv(RSub(f, w.M1), R(k))
        y1 == RSub(term, w.compensator)
        M2 == RAdd(w.M1, y1)
    IN  [w EXCEPT !.k = k,
                  !.compensator = RSub(RSub(M2, w.M1), y1),
                  !.S = RAdd(w.S, RMul(RSub(f, w.M1), RSub(f, M2))),
                  !.M1 = M2]

Welford(w, f) == Strict(WelfordStep, w, f)

\* A worker that has left m_thread_monte.
Exited == [NoWorker EXCEPT !.pc = "exited"]

\* Line 343: while (!m_done).
WCheck(t) ==
    /\ wk[t].pc = "check"
    /\ m_done \/ wk[t].k + BatchLen <= MaxCalls
    /\ wk' = [wk EXCEPT ![t] = IF m_done THEN Exited
                               ELSE [@ EXCEPT !.j = 0, !.pc = "batch"]]
    /\ UNCHANGED <<config, m_seed, m_error_goal, m_done, shared, m_exception,
                   slots, ctrl, future, result, history>>

RECURSIVE RunBatch(_, _, _)
\* Lines 351-379, n iterations: draw a point, evaluate the integrand, raise
\* a domain error for a non-finite value, otherwise update the accumulator.
\* The loop touches only the thread's locals; .exc tells how it ended.
RunBatchStep(integrand, w, n) ==
    IF n = 0 THEN w
    ELSE LET g == EngineNext(w.gen)
             out == m_integrand(integrand, g)
         IN  IF out.throws THEN [w EXCEPT !.exc = "integrand_exception"]
             ELSE IF ~IsFinite(out.val) THEN [w EXCEPT !.exc = "domain_error"]
             ELSE RunBatch(integrand,
                           [Welford(w, out.val) EXCEPT !.gen = g, !.j = @ + 1],
                           n - 1)

RunBatch(integrand, w, n) == Strict3(RunBatchStep, integrand, w, n)

\* Lines 345-379: one batch of magic_calls_before_update samples.
WBatch(t) ==
    /\ wk[t].pc = "batch"
    /\ LET w == RunBatch(F, wk[t], BatchLen)
       IN  wk' = [wk EXCEPT ![t] =
                   IF w.exc # "null"
                   THEN [NoWorker EXCEPT !.pc = "catch", !.exc = w.exc]
                   ELSE [w EXCEPT !.j = 0, !.pc = "pub_avg"]]
          /\ failed' = (failed \/ w.exc # "null")
    /\ UNCHANGED <<config, m_seed, m_error_goal, m_done, shared, m_exception,
                   slots, ctrl, future, result, counters>>

\* Line 380: m_thread_averages[thread_index] = M1.
WPubAvg(t) ==
    /\ wk[t].pc = "pub_avg"
    /\ m_thread_averages' = [m_thread_averages EXCEPT ![t] = wk[t].M1]
    /\ wk' = [wk EXCEPT ![t].pc = "pub_S"]
    /\ UNCHANGED <<config, m_seed, m_error_goal, m_done, shared, m_exception,
                   m_thread_calls, m_thread_Ss, ctrl, future, result, history>>

\* Line 381: m_thread_Ss[thread_index] = S.
WPubS(t) ==
    /\ wk[t].pc = "pub_S"
    /\ m_thread_Ss' = [m_thread_Ss EXCEPT ![t] = wk[t].S]
    /\ wk' = [wk EXCEPT ![t].pc = "pub_calls"]
    /\ UNCHANGED <<config, m_seed, m_error_goal, m_done, shared, m_exception,
                   m_thread_calls, m_thread_averages, ctrl, future, result,
                   history>>

\* WPubCalls that stores k in slot 0 whatever the thread's index is.
WPubCallsShared(t) ==
    /\ wk[t].pc = "pub_calls"
    /\ m_thread_calls' = [m_thread_calls EXCEPT ![0] = wk[t].k]
    /\ wk' = [wk EXCEPT ![t].pc = "check"]
    /\ UNCHANGED <<config, m_seed, m_error_goal, m_done, shared, m_exception,
                   m_thread_Ss, m_thread_averages, ctrl, future, result,
                   history>>

\* Line 382: m_thread_calls[thread_index] = k.
WPubCalls(t) ==
    /\ wk[t].pc = "pub_calls"
    /\ m_thread_calls' = [m_thread_calls EXCEPT ![t] = wk[t].k]
    /\ wk' = [wk EXCEPT ![t].pc = "check"]
    /\ UNCHANGED <<config, m_seed, m_error_goal, m_done, shared, m_exception,
                   m_thread_Ss, m_thread_averages, ctrl, future, result,
                   history>>

\* Line 388: m_done = true.
WCatchDone(t) ==
    /\ wk[t].pc = "catch"
    /\ m_done' = TRUE
    /\ wk' = [wk EXCEPT ![t].pc = "store_exc"]
    /\ UNCHANGED <<config, m_seed, m_error_goal, shared, m_exception, slots,
                   ctrl, future, result, history>>

\* WCatchExc without line 389: the exception is swallowed.
WCatchSwallow(t) ==
    /\ wk[t].pc = "store_exc"
    /\ wk' = [wk EXCEPT ![t] = Exited]
    /\ UNCHANGED <<config, m_seed, m_error_goal, m_done, shared, m_exception,
                   slots, ctrl, future, result, history>>

\* Line 389: m_exception = std::current_exception(), and the thread ends.
WCatchExc(t) ==
    /\ wk[t].pc = "store_exc"
    /\ m_exception' = wk[t].exc
    /\ wk' = [wk EXCEPT ![t] = Exited]
    /\ UNCHANGED <<config, m_seed, m_error_goal, m_done, shared, slots, ctrl,
                   future, result, history>>

(* --------------------------- specification ---------------------------- *)

Worker(t) ==
    \/ WCheck(t) \/ WBatch(t)
    \/ WPubAvg(t) \/ WPubS(t) \/ WPubCalls(t)
    \/ WCatchDone(t) \/ WCatchExc(t)

Controller ==
    \/ CtrlStart \/ CtrlSum \/ CtrlAggCalls \/ CtrlAggAvg \/ CtrlAggS
    \/ CtrlPublish \/ CtrlWhileCond \/ CtrlSetDone
    \/ CtrlJoin \/ CtrlRethrow \/ CtrlFinal

Next ==
    \/ Integrate
    \/ Cancel
    \/ \E g \in Goals : UpdateTargetError(g)
    \/ Controller
    \/ \E t \in Threads : Worker(t)

Spec == Init /\ [][Next]_vars

\* The operating system schedules the threads, and every call of the
\* integrand returns: while some thread of the run can take a step, one does.
Fairness == WF_vars(Controller \/ \E t \in Threads : Worker(t))

FairSpec == Spec /\ Fairness

(* ------------------------------- claims ------------------------------- *)

\* The estimate the controller compares with the goal at line 296, squared.
PublishedEstimateSq == ErrorEstimateSq(m_variance, m_total_calls)

\* The controller is inside the poll loop of lines 272-296.
Polling == ctrl.pc \in {"sum", "agg_calls", "agg_avg", "agg_S", "publish",
                        "while_cond"}

\* C1: in a run with no cancel() and no failed worker, the controller ends
\* the poll loop at a poll exactly when the error estimate of the aggregate it
\* has just published is <= the error goal it loads at that poll, and polls
\* again exactly when the estimate is > the goal.
C1_ExitExactlyWhenGoalMet ==
    [][(ctrl.pc = "while_cond" /\ ctrl'.pc # "while_cond"
          /\ ncancels = 0 /\ ~failed)
        => /\ ctrl'.pc = "set_done" <=> SqrtLeq(PublishedEstimateSq, m_error_goal)
           /\ ctrl'.pc = "sum" <=> SqrtGreater(PublishedEstimateSq, m_error_goal)]_vars

\* C2: once done is set while a run is in flight (by cancel() in
\* particular), no worker starts another batch, so each evaluates at most the
\* batch it had already begun; the controller leaves the loop at its next
\* poll; and the handle integrate() returned eventually resolves.
C2_CancelResolves ==
    /\ [][\A t \in Threads :
            (m_done /\ future = "pending" /\ wk[t].pc = "check")
               => wk'[t].pc \in {"check", "exited"}]_vars
    /\ [][(m_done /\ ctrl.pc = "publish")
            => ctrl'.pc \in {"publish", "set_done"}]_vars
    /\ ((m_done /\ future = "pending") ~> (future # "pending"))

\* cancel() arrived while the controller was polling and a worker was past
\* its check of m_done: the worker still has its batch to finish.
C2_Witness ==
    /\ F = "step" /\ ncancels = 1 /\ m_done /\ future = "pending" /\ Polling
    /\ \E t \in Threads : wk[t].pc = "batch"

\* A worker has caught an exception and not yet left m_thread_monte.
Catching(t) == wk[t].pc \in {"catch", "store_exc"}

\* C3: when a worker fails, done is set and the exception stored by the
\* time that worker has ended; the run never resolves with an estimate; and
\* integrate eventually resolves by re-raising, in every interleaving.
C3_FailureRethrown ==
    /\ [](future = "value" => ~failed)
    /\ []((failed /\ future = "pending" /\ \A t \in Threads : ~Catching(t))
            => (m_done /\ m_exception # "null"))
    /\ []((failed /\ future = "exception")
            => \A t \in Threads : wk[t].pc = "none")
    /\ (failed ~> (future = "exception"))

\* A worker failed in a run that cancel() had already ended, while another
\* worker had published a batch, and integrate re-raised.
C3_Witness ==
    /\ failed /\ future = "exception" /\ ncancels = 1 /\ nruns = 1
    /\ \E t \in Threads : m_thread_calls[t] > 1

\* C4: whenever the handle is resolved, with a value or with an exception,
\* no worker thread of the run is left: every one has ended and been joined.
C4_WorkersJoinedAtResolve ==
    future \in {"value", "exception"} => \A t \in Threads : wk[t].pc = "none"

\* A two-thread run resolved with a value after both workers had published.
C4_Witness ==
    /\ future = "value" /\ m_num_threads = 2
    /\ \A t \in Threads : m_thread_calls[t] > 1 /\ wk[t].pc = "none"

\* The k-weighted mean of the per-thread M1, (sum k_i M1_i) / (sum k_i).
SlotMean ==
    RDiv(RSum([t \in Threads |-> RMul(R(m_thread_calls[t]), m_thread_averages[t])],
              m_num_threads),
         R(NSum(m_thread_calls, m_num_threads)))

\* C5, first part: a handle resolved with a value holds the k-weighted mean
\* of the final slots, which is also the published avg; total_calls is the
\* sum of the per-thread k and variance the sum of the per-thread S over
\* total_calls - 1.
C5_FinalAggregate ==
    future = "value" =>
        /\ result = SlotMean /\ m_avg = SlotMean
        /\ m_total_calls = NSum(m_thread_calls, m_num_threads)
        /\ m_variance = RDiv(RSum(m_thread_Ss, m_num_threads),
                              R(m_total_calls - 1))

\* C5: the first part, and a run in which no worker fails (a cancelled run
\* in particular) resolves normally, never with an exception.
C5_ResolvesWithFinalAggregate ==
    /\ C5_FinalAggregate
    /\ (future = "exception" => failed)

\* C6: a run starts every worker from the k, M1 and S of its slot, and no
\* slot changes between the end of one run and the start of the next.
C6_RestartResumes ==
    /\ [][(ctrl.pc = "start" /\ ctrl'.pc # "start")
            => \A t \in Threads : /\ wk'[t].k = m_thread_calls[t]
                                  /\ wk'[t].M1 = m_thread_averages[t]
                                  /\ wk'[t].S = m_thread_Ss[t]]_vars
    /\ [][(future # "pending" \/ ctrl.pc = "start") => UNCHANGED slots]_vars

\* The second run has just started its workers from slots that hold the
\* batches of the first run.
C6_Witness ==
    /\ nruns = 2 /\ ctrl.pc = "sum" /\ ctrl.total_calls = 0 /\ ~m_done
    /\ \A t \in Threads : wk[t].pc = "check" /\ wk[t].k = MaxCalls

\* C7: done goes from true to false only in a step of integrate().
C7_DoneStaysSet ==
    [][(m_done /\ ~m_done') => (nruns' = nruns + 1 /\ future' = "pending")]_vars

\* done was set in a run and cancel(), update_target_error() and the
\* controller's last steps have left it set.
C7_Witness ==
    m_done /\ future = "value" /\ ncancels = 1 /\ nupdates = 1 /\ nruns = 1

\* C8: at the poll after update_target_error(new), the controller compares
\* the estimate it has just published with new: if the estimate is <= new it
\* leaves the loop, and its next step sets done.
C8_NewGoalEndsRun ==
    /\ [][(ctrl.pc = "while_cond" /\ ctrl'.pc # "while_cond"
             /\ SqrtLeq(PublishedEstimateSq, m_error_goal))
            => ctrl'.pc = "set_done"]_vars
    /\ [][(ctrl.pc = "set_done" /\ ctrl'.pc # "set_done") => m_done']_vars

\* The goal was raised from 1/4 to 1 and the poll ended the run on an
\* estimate that is above the old goal.
C8_Witness ==
    /\ nupdates = 1 /\ m_error_goal = R(1) /\ ctrl.pc = "set_done" /\ ~m_done
    /\ SqrtGreater(PublishedEstimateSq, Norm(1, 4))
    /\ SqrtLeq(PublishedEstimateSq, m_error_goal)

\* C9: in every state the published total_calls is >= thread_count and the
\* published variance is a number >= 0.
C9_AggregateWellDefined ==
    m_total_calls >= m_num_threads /\ RLeq(R(0), m_variance)

\* C10: the weights of a poll sum to 1: the t_calls the controller forms
\* them with add up to the total_calls it divides by.
C10_WeightsSumToOne ==
    ctrl.pc = "publish" => ctrl.weights = ctrl.total_calls

\* C11: the published total_calls, which calls() returns, never decreases:
\* not from poll to poll, not at the final aggregate, not across a restart.
C11_CallsNeverDecrease ==
    [][m_total_calls' >= m_total_calls]_vars

\* A cancelled first run was restarted and the second run has resolved with
\* every batch of both workers counted.
C11_Witness ==
    /\ nruns = 2 /\ ncancels = 1 /\ future = "value" /\ m_num_threads = 2
    /\ m_total_calls = m_num_threads * MaxCalls

\* The seed m_integrate gives worker t when the master seed is seed: the
\* (t+1)-th number of the master engine.
WorkerSeed(seed, t) == EngineNth(EngineSeed(seed), t + 1)

\* The locals of worker t after nb whole batches of a first run of an
\* integrator constructed with the nonzero seed: a function of the integrand,
\* the seed, t and nb only.
ExpectedWorker(integrand, seed, t, nb) ==
    RunBatch(integrand,
             [NoWorker EXCEPT
                !.gen = EngineSeed(WorkerSeed(seed, t)),
                !.M1 = m_integrand(integrand, WorkerSeed(seed, t)).val,
                !.k = 1],
             nb * BatchLen)

\* k as a number of whole batches.
BatchesOf(k) == (k - 1) \div BatchLen

\* C12: in a first run of an integrator constructed with a nonzero seed (and
\* no cancel(), which would change the seed), worker t's engine, its
\* accumulator and the triple it has published are those of ExpectedWorker at
\* the same k, whatever the interleaving of the threads and of the polls.
C12_FirstRunDeterministic ==
    (nruns <= 1 /\ ncancels = 0 /\ m_seed # 0) =>
        \A t \in Threads :
            /\ wk[t].pc \in {"check", "batch", "pub_avg", "pub_S", "pub_calls"}
                 => LET e == ExpectedWorker(F, m_seed, t, BatchesOf(wk[t].k))
                    IN  /\ wk[t].gen = e.gen /\ wk[t].k = e.k
                        /\ wk[t].M1 = e.M1 /\ wk[t].S = e.S
            /\ wk[t].pc \notin {"pub_S", "pub_calls"}
                 => LET e == ExpectedWorker(F, m_seed, t,
                                            BatchesOf(m_thread_calls[t]))
                    IN  /\ m_thread_calls[t] = e.k
                        /\ m_thread_averages[t] = e.M1
                        /\ m_thread_Ss[t] = e.S

\* Both workers of a first run with a given seed have published a batch.
C12_Witness ==
    /\ nruns = 1 /\ ncancels = 0 /\ m_seed # 0 /\ m_num_threads = 2
    /\ F = "step" /\ \A t \in Threads : m_thread_calls[t] = MaxCalls

\* C13: cancel() stores s*s in size_t arithmetic; a nonzero s becomes a
\* nonzero seed different from s, and 0 stays 0.
C13_CancelChangesSeed ==
    [][(ncancels' = ncancels + 1)
        => /\ m_seed' = (m_seed * m_seed) % SizeMod
           /\ (m_seed # 0 => (m_seed' # 0 /\ m_seed' # m_seed))
           /\ (m_seed = 0 => m_seed' = 0)]_vars

\* The k of the batch that the M1 now in slot t belongs to.
AvgK(t) ==
    IF wk[t].pc \in {"pub_S", "pub_calls"} THEN wk[t].k ELSE m_thread_calls[t]

\* The k of the batch that the S now in slot t belongs to.
SK(t) == IF wk[t].pc = "pub_calls" THEN wk[t].k ELSE m_thread_calls[t]

\* C15: the M1 and the S the controller reads from a slot during a poll
\* belong to the same batch as the k it has read from that slot.
C15_NoMixedTriple ==
    [][/\ (ctrl.pc = "agg_avg" /\ ctrl'.pc = "agg_S")
            => AvgK(ctrl.i) = ctrl.t_calls
       /\ (ctrl.pc = "agg_S" /\ ctrl'.pc # "agg_S")
            => SK(ctrl.i) = ctrl.t_calls]_vars

\* Slot t differs between the two states of a step.
SlotWritten(t) ==
    \/ m_thread_calls'[t] # m_thread_calls[t]
    \/ m_thread_averages'[t] # m_thread_averages[t]
    \/ m_thread_Ss'[t] # m_thread_Ss[t]

\* C16: slot t changes only in a publishing step of worker t, in which no
\* other thread moves; and no step of the controller changes a slot.
C16_SlotSingleWriter ==
    /\ [][\A t \in Threads :
            SlotWritten(t)
              => /\ wk[t].pc \in {"pub_avg", "pub_S", "pub_calls"}
                 /\ wk'[t].pc # wk[t].pc
                 /\ ctrl' = ctrl
                 /\ \A u \in Threads \ {t} : wk'[u] = wk[u] /\ ~SlotWritten(u)]_vars
    /\ [][ctrl' # ctrl => UNCHANGED slots]_vars

\* Two workers are publishing at once while the controller is polling.
C16_Witness ==
    /\ m_num_threads = 2 /\ Polling
    /\ wk[0].pc = "pub_S" /\ wk[1].pc = "pub_calls"

\* C17: the stored exception is never written by two workers at once: at
\* most one worker is at its store to m_exception.
C17_ExceptionSingleWriter ==
    Cardinality({t \in Threads : wk[t].pc = "store_exc"}) <= 1

\* C19: a run resolves with an exception only if a worker has failed in
\* that same run.
C19_RaisesOnlyOwnFailure ==
    [][(future = "pending" /\ future' = "exception") => failed]_vars

\* C20: in a first run that is neither cancelled nor failed the controller
\* does not leave the loop by the error-goal test while every slot still
\* holds what the constructor left in it (k = 1, S = 0).
C20_NoExitOnConstructionState ==
    [][(/\ ctrl.pc = "while_cond" /\ ctrl'.pc = "set_done"
        /\ F = "step" /\ m_num_threads > 1
        /\ nruns = 1 /\ ncancels = 0 /\ ~failed)
        => ~(\A t \in Threads : m_thread_calls[t] = 1 /\ m_thread_Ss[t] = R(0))]_vars

\* The axes whose upper bound is <= their lower bound.
BadAxes == {j \in Axes : RLeq(bounds[j][2], bounds[j][1])}

\* No slot has been created.
NoSlots ==
    /\ DOMAIN m_thread_calls = {} /\ DOMAIN m_thread_Ss = {}
    /\ DOMAIN m_thread_averages = {}

\* C14: with an axis whose upper bound is <= its lower bound the
\* constructor never gets past the bounds loop, so it evaluates nothing and
\* creates no slot, and the domain error it raises is for the first such
\* axis; with lower < upper on every axis, a constructor that has returned
\* has evaluated the integrand once per thread and left every slot with
\* k = 1 and S = 0.
C14_BoundsChecked ==
    /\ BadAxes # {} => /\ ctor.pc \in {"bounds", "domain_error"}
                       /\ ctor.evals = 0 /\ NoSlots
    /\ ctor.pc = "domain_error"
         => /\ ctor.i \in BadAxes /\ \A j \in BadAxes : j >= ctor.i
            /\ ctor.evals = 0 /\ NoSlots
    /\ (ctor.pc = "done" /\ \A j \in Axes : RGreater(bounds[j][2], bounds[j][1]))
         => /\ ctor.evals = m_num_threads
            /\ DOMAIN m_thread_calls = Threads
            /\ \A t \in Threads : m_thread_calls[t] = 1 /\ m_thread_Ss[t] = R(0)

\* The domain error was raised for the second axis, the first being valid.
C14_Witness ==
    /\ ctor.pc = "domain_error" /\ ctor.i = 1
    /\ RGreater(bounds[0][2], bounds[0][1])

\* The bounds loop has dealt with axis j.
Processed(j) ==
    \/ ctor.pc \in {"bounds", "domain_error"} /\ j < ctor.i
    \/ ctor.pc \notin {"bounds", "domain_error"}

\* Axis j has finite ends with lower < upper.
ProperFinite(j) ==
    /\ IsFinite(bounds[j][1]) /\ IsFinite(bounds[j][2])
    /\ RGreater(bounds[j][2], bounds[j][1])

\* C18: the width stored for a finite axis with lower < upper is > 0, in
\* singular and in non-singular mode, and so is the volume when every axis
\* is such an axis.
C18_FiniteWidthPositive ==
    /\ \A j \in Axes : (Processed(j) /\ ProperFinite(j))
                          => RGreater(m_dxs[j], R(0))
    /\ (ctor.pc = "done" /\ \A j \in Axes : ProperFinite(j))
         => RGreater(m_volume, R(0))

====
